---- MODULE Spec2Model ----
(***************************************************************************)
(* A model of the encrypted credential vault of password_manager:          *)
(* VaultManager (src/password_manager/src/vault.rs), the Vault/Credential  *)
(* data model (models.rs) and the CryptoEngine boundary (crypto.rs).       *)
(*                                                                         *)
(* Cryptography is symbolic: Argon2id is an injective function of          *)
(* (password, salt); an AES-256-GCM ciphertext remembers the key, nonce    *)
(* and plaintext it was made from and whether (and where) it was altered   *)
(* since, and decrypt authenticates exactly when all of them match.        *)
(* The file system is the one vault file; fs::read, fs::write and          *)
(* fs::create_dir_all may fail (the environment chooses), and fs::write    *)
(* truncates the file before writing, so a failed write can leave a        *)
(* partial file behind.                                                    *)
(***************************************************************************)
EXTENDS Integers, Sequences, FiniteSets, TLC

VARIABLES
    vault,       \* VaultManager.vault : Option<Vault>
    master_key,  \* VaultManager.master_key : Option<key>
    file,        \* the content of the file at VaultManager.vault_path
    last,        \* the last call on the manager: [op, arg, result]
    initPw,      \* history: the master password of the successful initialize
    faults,      \* history: number of I/O failures the environment injected
    cred,        \* a stand-alone Credential (Credential-level specification)
    supplied,    \* history: the passwords cred has held, oldest first
    analysed,    \* the Vault handed to the analytics functions
    report,      \* what the last analytics call returned
    clock,       \* SystemTime::now() in seconds since UNIX_EPOCH
    issued,      \* the last generate_totp call: its secret, step and result
    verified,    \* the last verify_totp call: its secret, code and result
    sealed,      \* the last encrypt call: its inputs and its result
    opened,      \* the last decrypt call: its inputs and its result
    searched,    \* the Vault handed to Vault::search
    found,       \* the last Vault::search call: its query and its result
    generated,   \* the last generate_password call: its inputs and result
    encoded,     \* bytes put through encode_base32 and then decode_base32
    audit_log,   \* Vault.audit_log
    logged,      \* history: every audit entry there ever was, oldest first
    run          \* one call of Pipeline::run: its position and its locals

vars == <<vault, master_key, file, last, initPw, faults, cred, supplied,
          analysed, report, clock, issued, verified, sealed, opened,
          searched, found, generated, encoded, audit_log, logged, run>>
mgrVars == <<vault, master_key, file, last, initPw, faults>>
credVars == <<cred, supplied>>
analyticsVars == <<analysed, report>>
totpVars == <<clock, issued, verified>>
cryptoVars == <<sealed, opened>>
searchVars == <<searched, found>>
\* The variables of the stand-alone functions below the manager.
passwordVars == <<generated>>
base32Vars == <<encoded>>
auditVars == <<audit_log, logged>>
pipelineVars == <<run>>
utilityVars == <<searchVars, passwordVars, base32Vars, auditVars, pipelineVars>>

(***************************************************************************)
(* Bounds of the model and input alphabets.                                *)
(***************************************************************************)
MaxFaults == 2      \* I/O failures injected in one behaviour
MaxHist == 1        \* password_history length reached in the manager model
MaxUpdates == 11    \* update_password calls in the Credential-level model
MaxCreds == 3       \* credentials in the vault handed to the analytics
MaxClock == 95      \* seconds the TOTP clock runs (three whole steps)
MaxSearched == 2    \* credentials in the vault handed to Vault::search
MaxLength == 2      \* length asked of generate_password
MaxBytes == 5       \* bytes handed to encode_base32
MaxLogs == 3        \* log_operation calls in one behaviour

\* generate_salt returns 32 random bytes, encrypt draws 12 random bytes.
SALT_SIZE == 32
NONCE_SIZE == 12

MasterPasswords == {"masterpw1", "wrongpw"}
Salts == {[len |-> SALT_SIZE, id |-> "saltA"], [len |-> SALT_SIZE, id |-> "saltB"]}
Nonces == {[len |-> NONCE_SIZE, id |-> "n1"], [len |-> NONCE_SIZE, id |-> "n2"]}
Services == {"github.com", "site.com"}
Usernames == {"alice"}
CredPasswords == {"x1"}
AnyPasswords == {"", "x1", "x2"}
\* Arguments of get_credential (one differs from a service only in case) and
\* of search.
Lookups == Services \cup {"GITHUB.COM"}
Queries == {"", "GIT"}

\* What the I/O of one call does: every call stops at its first failed I/O
\* step, so at most one of its steps fails.
\*   "read_err"      fs::read (or fs::create_dir_all in initialize) fails
\*   "write_err"     fs::write fails before it has truncated the file
\*   "write_partial" fs::write fails after it has truncated the file
IoOutcomes == {"ok", "read_err", "write_err", "write_partial"}

(***************************************************************************)
(* Option<T>                                                               *)
(***************************************************************************)
None == <<>>
Some(x) == <<x>>

(***************************************************************************)
(* models.rs : Credential, Vault                                           *)
(***************************************************************************)
VAULT_VERSION == 1
HISTORY_CAP == 10

\* Credential::new; the instant of creation is instant 0 of the model's time.
Credential_new(service, username, password) ==
    [service |-> service, username |-> username, password |-> password,
     password_history |-> <<>>, updated_at |-> 0]

\* update_password returning at once when the current password is empty.
update_password_skipping_empty(c, new_password, now) ==
    IF c.password = ""
    THEN c
    ELSE LET pushed == Append(c.password_history, c.password)
             capped == IF Len(pushed) > HISTORY_CAP THEN Tail(pushed) ELSE pushed
         IN  [c EXCEPT !.password_history = capped, !.password = new_password,
                       !.updated_at = now]

update_password_evict_newest(c, new_password, now) ==
    LET pushed == IF c.password # ""
                  THEN Append(c.password_history, c.password)
                  ELSE c.password_history
        capped == IF Len(pushed) > HISTORY_CAP
                  THEN SubSeq(pushed, 1, HISTORY_CAP)
                  ELSE pushed
    IN  [c EXCEPT !.password_history = capped, !.password = new_password,
                  !.updated_at = now]

\* now is the value of Utc::now() at the call.
update_password(c, new_password, now) ==
    LET pushed == IF c.password # ""
                  THEN Append(c.password_history, c.password)
                  ELSE c.password_history
        capped == IF c.password # "" /\ Len(pushed) > HISTORY_CAP
                  THEN Tail(pushed)
                  ELSE pushed
    IN  [c EXCEPT !.password_history = capped, !.password = new_password,
                  !.updated_at = now]

Vault_new == [credentials |-> <<>>]

\* The characters of the strings the model uses (String as a sequence).
Chars(s) ==
    CASE s = "" -> <<>>
      [] s = "github.com" -> <<"g", "i", "t", "h", "u", "b", ".", "c", "o", "m">>
      [] s = "site.com" -> <<"s", "i", "t", "e", ".", "c", "o", "m">>
      [] s = "alice" -> <<"a", "l", "i", "c", "e">>
      [] s = "GIT" -> <<"G", "I", "T">>
      [] s = "GITHUB.COM" -> <<"G", "I", "T", "H", "U", "B", ".", "C", "O", "M">>
      [] s = "LICE" -> <<"L", "I", "C", "E">>
      [] s = "U+039F U+0394 U+03A5 U+03A3"
           -> <<"U+039F", "U+0394", "U+03A5", "U+03A3">>
      [] s = "U+03A3" -> <<"U+03A3">>
      [] s = "U+03C2" -> <<"U+03C2">>

UpperCase == <<"A", "B", "C", "D", "E", "F", "G", "H", "I", "J", "K", "L", "M",
               "N", "O", "P", "Q", "R", "S", "T", "U", "V", "W", "X", "Y", "Z">>
LowerCase == <<"a", "b", "c", "d", "e", "f", "g", "h", "i", "j", "k", "l", "m",
               "n", "o", "p", "q", "r", "s", "t", "u", "v", "w", "x", "y", "z">>

\* Greek letters, written as code points: capital omicron, delta, upsilon and
\* sigma, and their lowercase forms; U+03C2 is the final form of small sigma.
GreekUpper == <<"U+039F", "U+0394", "U+03A5", "U+03A3">>
GreekLower == <<"U+03BF", "U+03B4", "U+03C5", "U+03C3">>
CAPITAL_SIGMA == "U+03A3"
FINAL_SIGMA == "U+03C2"

Uppers == UpperCase \o GreekUpper
Lowers == LowerCase \o GreekLower

\* The Unicode properties Cased and Case_Ignorable on the model's characters.
Cased(ch) ==
    \/ \E k \in 1..Len(Uppers) : Uppers[k] = ch \/ Lowers[k] = ch
    \/ ch = FINAL_SIGMA

CaseIgnorable(ch) == ch = "."

\* str::to_lowercase: every character is mapped to its lowercase, except that
\* a capital sigma becomes a final sigma when a cased letter precedes it and
\* none follows it (case-ignorable characters skipped), a small sigma
\* otherwise.
to_lowercase(t) ==
    [i \in 1..Len(t) |->
        IF t[i] = CAPITAL_SIGMA
        THEN LET before == {k \in 1..(i - 1) : ~CaseIgnorable(t[k])}
                 after == {k \in (i + 1)..Len(t) : ~CaseIgnorable(t[k])}
                 is_word_final ==
                    /\ before # {}
                    /\ Cased(t[CHOOSE k \in before : \A j \in before : j <= k])
                    /\ ~(/\ after # {}
                         /\ Cased(t[CHOOSE k \in after : \A j \in after : k <= j]))
             IN  IF is_word_final THEN FINAL_SIGMA ELSE "U+03C3"
        ELSE IF \E k \in 1..Len(Uppers) : Uppers[k] = t[i]
        THEN Lowers[CHOOSE k \in 1..Len(Uppers) : Uppers[k] = t[i]]
        ELSE t[i]]

\* str::contains(pattern) on character sequences.
contains(t, pattern) ==
    \E k \in 0..(Len(t) - Len(pattern)) :
        \A j \in 1..Len(pattern) : t[k + j] = pattern[j]

Vault_search(v, query) ==
    LET query_lower == to_lowercase(Chars(query))
    IN  SelectSeq(v.credentials,
                  LAMBDA c :
                     \/ contains(to_lowercase(Chars(c.service)), query_lower)
                     \/ contains(to_lowercase(Chars(c.username)), query_lower))

Vault_list_all(v) == v.credentials

Vault_get_credential_never(v, service) == 0

\* Index of the first credential with this service, 0 for Option::None.
Vault_get_credential(v, service) ==
    LET idx == {i \in 1..Len(v.credentials) : v.credentials[i].service = service}
    IN  IF idx = {} THEN 0 ELSE CHOOSE i \in idx : \A j \in idx : i <= j

\* add_credential inserting at the front of the Vec.
Vault_add_credential_at_front(v, c) ==
    IF \E i \in 1..Len(v.credentials) : v.credentials[i].service = c.service
    THEN [ok |-> FALSE, vault |-> v]
    ELSE [ok |-> TRUE, vault |-> [v EXCEPT !.credentials = <<c>> \o @]]

Vault_add_credential(v, c) ==
    IF \E i \in 1..Len(v.credentials) : v.credentials[i].service = c.service
    THEN [ok |-> FALSE, vault |-> v]
    ELSE [ok |-> TRUE, vault |-> [v EXCEPT !.credentials = Append(@, c)]]

Vault_remove_credential_always_ok(v, service) ==
    [ok |-> TRUE,
     vault |-> [v EXCEPT !.credentials =
                  SelectSeq(v.credentials, LAMBDA c : c.service # service)]]

Vault_remove_credential(v, service) ==
    LET kept == SelectSeq(v.credentials, LAMBDA c : c.service # service)
    IN  [ok |-> Len(kept) # Len(v.credentials),
         vault |-> [v EXCEPT !.credentials = kept]]

\* serde_json::to_vec(vault): Credential.password is #[serde(skip)].
SerializeCredential(c) ==
    [service |-> c.service, username |-> c.username,
     password_history |-> c.password_history, updated_at |-> c.updated_at]

Serialize(v) ==
    [credentials |-> [i \in 1..Len(v.credentials) |->
                        SerializeCredential(v.credentials[i])]]

\* serde_json::from_slice: the skipped password takes #[serde(default)].
DeserializeCredential(j) ==
    [service |-> j.service, username |-> j.username, password |-> "",
     password_history |-> j.password_history, updated_at |-> j.updated_at]

Deserialize(json) ==
    [credentials |-> [i \in 1..Len(json.credentials) |->
                        DeserializeCredential(json.credentials[i])]]

(***************************************************************************)
(* crypto.rs                                                               *)
(***************************************************************************)
derive_key(password, salt) == [password |-> password, salt |-> salt]

\* cipher.encrypt returns the encrypted bytes followed by the 16-byte tag.
CiphertextParts == {"body", "tag"}

encrypt(plaintext, key, nonce) ==
    [ciphertext |-> [key |-> key, nonce |-> nonce, plain |-> plaintext,
                     altered |-> FALSE, part |-> "none"],
     nonce |-> nonce]

\* The ciphertext with some byte of the given part changed.
alter(ciphertext, part) ==
    [ciphertext EXCEPT !.altered = TRUE, !.part = part]

\* Err(DecryptionError(message)): decrypt never returns a plaintext with it.
DecryptionError(message) ==
    [ok |-> FALSE, plaintext |-> [credentials |-> <<>>], error |-> message]

decrypt_unauthenticated(ciphertext, key, nonce) ==
    IF nonce.len # NONCE_SIZE
    THEN DecryptionError("Invalid nonce size")
    ELSE IF ciphertext.key = key /\ ciphertext.nonce = nonce
    THEN [ok |-> TRUE, plaintext |-> ciphertext.plain, error |-> ""]
    ELSE DecryptionError("aead::Error")

decrypt(ciphertext, key, nonce) ==
    IF nonce.len # NONCE_SIZE
    THEN DecryptionError("Invalid nonce size")
    ELSE IF ciphertext.key = key /\ ciphertext.nonce = nonce
            /\ ~ciphertext.altered
    THEN [ok |-> TRUE, plaintext |-> ciphertext.plain, error |-> ""]
    ELSE DecryptionError("aead::Error")

(***************************************************************************)
(* The vault file                                                          *)
(***************************************************************************)
AbsentFile == [kind |-> "absent"]
PartialFile == [kind |-> "partial"]

vault_exists == file.kind # "absent"

fs_read(f, io) ==
    IF f.kind = "absent" THEN [ok |-> FALSE, faulted |-> FALSE]
    ELSE IF io = "read_err" THEN [ok |-> FALSE, faulted |-> TRUE]
    ELSE [ok |-> TRUE, faulted |-> FALSE]

fs_write(f, data, io) ==
    IF io = "write_err"
    THEN [result |-> "IoError", file |-> f, faulted |-> TRUE]
    ELSE IF io = "write_partial"
    THEN [result |-> "IoError", file |-> PartialFile, faulted |-> TRUE]
    ELSE [result |-> "Ok", file |-> data, faulted |-> FALSE]

(***************************************************************************)
(* vault.rs : VaultManager                                                 *)
(***************************************************************************)
\* What a call leaves behind: the manager's fields, the file, the returned
\* Result (its error kind, or "Ok") and whether an I/O failure was injected.
Outcome(v, k, f, r, faulted) ==
    [vault |-> v, master_key |-> k, file |-> f, result |-> r,
     faulted |-> faulted, value |-> None, detail |-> ""]

\* A call that returns Ok(value) and touches neither the manager nor the file.
OutcomeValue(value) ==
    [vault |-> vault, master_key |-> master_key, file |-> file,
     result |-> "Ok", faulted |-> FALSE, value |-> value, detail |-> ""]

save_ignoring_write_error(v, k, f, salt, nonce, io) ==
    IF v = None \/ k = None
    THEN [result |-> "InvalidInput", file |-> f, faulted |-> FALSE]
    ELSE LET enc == encrypt(Serialize(v[1]), k[1], nonce)
             w == fs_write(f, [kind |-> "envelope", salt |-> salt,
                               nonce |-> enc.nonce,
                               ciphertext |-> enc.ciphertext,
                               version |-> VAULT_VERSION], io)
         IN  [w EXCEPT !.result = "Ok"]

save(v, k, f, salt, nonce, io) ==
    IF v = None \/ k = None
    THEN [result |-> "InvalidInput", file |-> f, faulted |-> FALSE]
    ELSE LET vault_json == Serialize(v[1])
             enc == encrypt(vault_json, k[1], nonce)
             encrypted_vault == [kind |-> "envelope", salt |-> salt,
                                 nonce |-> enc.nonce,
                                 ciphertext |-> enc.ciphertext,
                                 version |-> VAULT_VERSION]
         IN  fs_write(f, encrypted_vault, io)

initialize_overwriting(master_password, salt, nonce, io) ==
    IF io = "read_err"
    THEN Outcome(vault, master_key, file, "IoError", TRUE)
    ELSE LET key == derive_key(master_password, salt)
             s == save(Some(Vault_new), Some(key), file, salt, nonce, io)
         IN  Outcome(Some(Vault_new), Some(key), s.file, s.result, s.faulted)

initialize_salt_mismatch(master_password, salt, nonce, io) ==
    IF vault_exists
    THEN Outcome(vault, master_key, file, "VaultAlreadyExists", FALSE)
    ELSE IF io = "read_err"
    THEN Outcome(vault, master_key, file, "IoError", TRUE)
    ELSE LET key == derive_key(master_password, salt)
             stored == CHOOSE other \in Salts : other # salt
             s == save(Some(Vault_new), Some(key), file, stored, nonce, io)
         IN  Outcome(Some(Vault_new), Some(key), s.file, s.result, s.faulted)

initialize(master_password, salt, nonce, io) ==
    IF vault_exists
    THEN Outcome(vault, master_key, file, "VaultAlreadyExists", FALSE)
    ELSE IF io = "read_err"
    THEN Outcome(vault, master_key, file, "IoError", TRUE)
    ELSE LET key == derive_key(master_password, salt)
             s == save(Some(Vault_new), Some(key), file, salt, nonce, io)
         IN  Outcome(Some(Vault_new), Some(key), s.file, s.result, s.faulted)

\* The body of VaultManager::unlock once fs::read has returned the content f.
unlock_read_distinguishing(v, k, f, master_password) ==
    IF f.kind # "envelope"
    THEN Outcome(v, k, f, "SerializationError", FALSE)
    ELSE LET key == derive_key(master_password, f.salt)
             dec == decrypt(f.ciphertext, key, f.nonce)
         IN  IF ~dec.ok
             THEN IF f.ciphertext.key # key
                  THEN Outcome(v, k, f, "InvalidMasterPassword", FALSE)
                  ELSE [Outcome(v, k, f, "DecryptionError", FALSE)
                           EXCEPT !.detail = f.ciphertext.part]
             ELSE Outcome(Some(Deserialize(dec.plaintext)), Some(key), f,
                          "Ok", FALSE)

unlock_read(v, k, f, master_password) ==
    IF f.kind # "envelope"
    THEN Outcome(v, k, f, "SerializationError", FALSE)
    ELSE LET key == derive_key(master_password, f.salt)
             dec == decrypt(f.ciphertext, key, f.nonce)
         IN  IF ~dec.ok
             THEN [Outcome(v, k, f, "DecryptionError", FALSE)
                      EXCEPT !.detail = dec.error]
             ELSE Outcome(Some(Deserialize(dec.plaintext)), Some(key), f,
                          "Ok", FALSE)

unlock_key_before_decrypt(master_password, io) ==
    IF ~vault_exists
    THEN Outcome(vault, master_key, file, "VaultNotFound", FALSE)
    ELSE IF ~fs_read(file, io).ok
    THEN Outcome(vault, master_key, file, "IoError", fs_read(file, io).faulted)
    ELSE IF file.kind # "envelope"
    THEN Outcome(vault, master_key, file, "SerializationError", FALSE)
    ELSE LET o == unlock_read(vault, master_key, file, master_password)
         IN  [o EXCEPT !.master_key =
                         Some(derive_key(master_password, file.salt))]

unlock_without_exists_check(master_password, io) ==
    IF ~fs_read(file, io).ok
    THEN Outcome(vault, master_key, file, "IoError", fs_read(file, io).faulted)
    ELSE unlock_read(vault, master_key, file, master_password)

unlock(master_password, io) ==
    IF ~vault_exists
    THEN Outcome(vault, master_key, file, "VaultNotFound", FALSE)
    ELSE IF ~fs_read(file, io).ok
    THEN Outcome(vault, master_key, file, "IoError", fs_read(file, io).faulted)
    ELSE unlock_read(vault, master_key, file, master_password)

resave_fresh_salt(v, nonce, io) ==
    IF ~fs_read(file, io).ok
    THEN Outcome(v, master_key, file, "IoError", fs_read(file, io).faulted)
    ELSE IF file.kind # "envelope"
    THEN Outcome(v, master_key, file, "SerializationError", FALSE)
    ELSE LET fresh == CHOOSE other \in Salts : other # file.salt
             s == save(v, master_key, file, fresh, nonce, io)
         IN  Outcome(v, master_key, s.file, s.result, s.faulted)

\* The tail shared by add/update/remove: re-read the salt from the file and
\* save the (already mutated) vault v.
resave(v, nonce, io) ==
    IF ~fs_read(file, io).ok
    THEN Outcome(v, master_key, file, "IoError", fs_read(file, io).faulted)
    ELSE IF file.kind # "envelope"
    THEN Outcome(v, master_key, file, "SerializationError", FALSE)
    ELSE LET s == save(v, master_key, file, file.salt, nonce, io)
         IN  Outcome(v, master_key, s.file, s.result, s.faulted)

Locked_as_empty_vault ==
    Outcome(vault, master_key, file, "CredentialNotFound", FALSE)

\* ensure_unlocked()? returning Err(InvalidInput("Vault is locked. ..."))
Locked == Outcome(vault, master_key, file, "InvalidInput", FALSE)

add_credential_unchecked(credential, nonce, io) ==
    IF vault = None THEN Locked
    ELSE resave(Some([vault[1] EXCEPT !.credentials = Append(@, credential)]),
                nonce, io)

add_credential(credential, nonce, io) ==
    IF vault = None THEN Locked
    ELSE IF Vault_get_credential(vault[1], credential.service) # 0
    THEN Outcome(vault, master_key, file, "CredentialAlreadyExists", FALSE)
    ELSE LET added == Vault_add_credential(vault[1], credential)
         IN  IF ~added.ok
             THEN Outcome(vault, master_key, file, "InvalidInput", FALSE)
             ELSE resave(Some(added.vault), nonce, io)

update_credential(service, new_password, nonce, io) ==
    IF vault = None THEN Locked
    ELSE LET i == Vault_get_credential(vault[1], service)
         IN  IF i = 0
             THEN Outcome(vault, master_key, file, "CredentialNotFound", FALSE)
             ELSE resave(Some([vault[1] EXCEPT !.credentials[i] =
                                   update_password(@, new_password, 0)]),
                         nonce, io)

remove_credential(service, nonce, io) ==
    IF vault = None THEN Locked
    ELSE LET removed == Vault_remove_credential(vault[1], service)
         IN  IF ~removed.ok
             THEN Outcome(vault, master_key, file, "CredentialNotFound", FALSE)
             ELSE resave(Some(removed.vault), nonce, io)

get_credential_taking(service) ==
    IF vault = None THEN Locked
    ELSE LET i == Vault_get_credential(vault[1], service)
         IN  IF i = 0
             THEN Outcome(vault, master_key, file, "CredentialNotFound", FALSE)
             ELSE [OutcomeValue(Some(vault[1].credentials[i])) EXCEPT
                     !.vault = Some(Vault_remove_credential(vault[1],
                                                            service).vault)]

get_credential(service) ==
    IF vault = None THEN Locked
    ELSE LET i == Vault_get_credential(vault[1], service)
         IN  IF i = 0
             THEN Outcome(vault, master_key, file, "CredentialNotFound", FALSE)
             ELSE OutcomeValue(Some(vault[1].credentials[i]))

search(query) ==
    IF vault = None THEN Locked
    ELSE OutcomeValue(Vault_search(vault[1], query))

list_all ==
    IF vault = None THEN Locked
    ELSE OutcomeValue(Vault_list_all(vault[1]))

\* VaultManager::lock; Drop for VaultManager calls it too.
lock == Outcome(None, None, file, "Ok", FALSE)

(***************************************************************************)
(* The manager as a state machine: one action per public method.           *)
(***************************************************************************)
Return(op, arg, out) ==
    /\ out.faulted => faults < MaxFaults
    /\ vault' = out.vault
    /\ master_key' = out.master_key
    /\ file' = out.file
    /\ last' = [op |-> op, arg |-> arg, result |-> out.result,
                value |-> out.value, detail |-> out.detail]
    /\ faults' = IF out.faulted THEN faults + 1 ELSE faults
    /\ initPw' = IF op = "initialize" /\ out.result = "Ok"
                 THEN Some(arg) ELSE initPw
    /\ UNCHANGED <<credVars, analyticsVars, totpVars, cryptoVars>>
    /\ UNCHANGED utilityVars

\* The I/O outcomes the environment may still choose: failures only while
\* fewer than MaxFaults were injected.
IoChoices == IF faults < MaxFaults THEN IoOutcomes ELSE {"ok"}

\* The manager model stops growing a credential's history at MaxHist.
HistoryBounded(service) ==
    IF vault = None THEN TRUE
    ELSE LET i == Vault_get_credential(vault[1], service)
         IN  IF i = 0 THEN TRUE
             ELSE IF vault[1].credentials[i].password = "" THEN TRUE
             ELSE Len(vault[1].credentials[i].password_history) < MaxHist

Initialize ==
    \E pw \in MasterPasswords, salt \in Salts, nonce \in Nonces,
       io \in IoChoices :
        Return("initialize", pw, initialize(pw, salt, nonce, io))

Unlock ==
    \E pw \in MasterPasswords, io \in IoChoices :
        Return("unlock", pw, unlock(pw, io))

Lock == Return("lock", "", lock)

AddCredential ==
    \E s \in Services, u \in Usernames, p \in CredPasswords,
       nonce \in Nonces, io \in IoChoices :
        Return("add_credential", s,
               add_credential(Credential_new(s, u, p), nonce, io))

UpdateCredential ==
    \E s \in Services, p \in CredPasswords,
       nonce \in Nonces, io \in IoChoices :
        /\ HistoryBounded(s)
        /\ Return("update_credential", s,
                  update_credential(s, p, nonce, io))

RemoveCredential ==
    \E s \in Services,
       nonce \in Nonces, io \in IoChoices :
        Return("remove_credential", s, remove_credential(s, nonce, io))

GetCredential ==
    \E s \in Lookups : Return("get_credential", s, get_credential(s))

Search ==
    \E q \in Queries : Return("search", q, search(q))

ListAll == Return("list_all", "", list_all)

\* The environment alters the stored ciphertext (corruption or tampering).
Tamper ==
    /\ file.kind = "envelope"
    /\ ~file.ciphertext.altered
    /\ \E part \in CiphertextParts :
          /\ file' = [file EXCEPT !.ciphertext = alter(@, part)]
          /\ last' = [op |-> "tamper", arg |-> part, result |-> "Ok",
                      value |-> None, detail |-> ""]
    /\ UNCHANGED <<vault, master_key, initPw, faults>>
    /\ UNCHANGED <<credVars, analyticsVars, totpVars, cryptoVars>>
    /\ UNCHANGED utilityVars

\* Credential-level model: update_password called on one Credential.
UpdatePassword ==
    /\ Len(supplied) <= MaxUpdates
    /\ \E p \in AnyPasswords :
        /\ cred' = update_password(cred, p, Len(supplied))
        /\ supplied' = Append(supplied, p)
    /\ UNCHANGED <<mgrVars, analyticsVars, totpVars, cryptoVars>>
    /\ UNCHANGED utilityVars

(***************************************************************************)
(* models.rs / analytics.rs : analytics over a Vault.                      *)
(* Times are seconds; a credential here carries the fields the analytics   *)
(* read: service, username, password, totp_secret and updated_at.          *)
(***************************************************************************)
SECS_PER_DAY == 86400

AnalysedServices == <<"github.com", "site.com", "mail.com", "bank.com">>
\* "" is what every credential holds after unlock; "abc123" is in
\* COMMON_PASSWORDS; zxcvbn scores the third one 4.
AnalysedPasswords == {"", "abc123", "kX9#mLp2$vNq8@wR"}
TotpSecrets == {None, Some("JBSWY3DPEHPK3PXP")}
UpdatedAts == {0, 90000}
Nows == {176400}
Thresholds == {1, 2}

\* zxcvbn(password, &[]).score() < 3
is_weak_password(password) == password \in {"", "abc123"}

\* analyze_password(..).strength >= PasswordStrength::Strong
is_strong_password(password) == password \in {"kX9#mLp2$vNq8@wR"}

\* COMMON_PASSWORDS.contains(password.to_lowercase())
is_common_password(password) == password \in {"abc123"}

\* chrono's Duration::num_days: whole days, truncated toward zero.
num_days(secs) ==
    IF secs >= 0 THEN secs \div SECS_PER_DAY
    ELSE 0 - ((0 - secs) \div SECS_PER_DAY)

password_age_days(c, now) == num_days(now - c.updated_at)

is_old(c, threshold_days, now) == password_age_days(c, now) > threshold_days

Vault_find_old_passwords(v, threshold_days, now) ==
    SelectSeq(v.credentials, LAMBDA c : is_old(c, threshold_days, now))

\* The services pushed under one password, in vault order.
ServicesHolding(v, password) ==
    LET held == SelectSeq(v.credentials, LAMBDA c : c.password = password)
    IN  [i \in 1..Len(held) |-> held[i].service]

\* The HashMap<password, Vec<service>> as a function on its keys.
Vault_find_reused_passwords(v) ==
    LET entered == {v.credentials[i].password :
                       i \in 1..Len(v.credentials)} \ {""}
        reused == {p \in entered : Len(ServicesHolding(v, p)) > 1}
    IN  [p \in reused |-> ServicesHolding(v, p)]

saturating_sub(a, b) == IF b > a THEN 0 ELSE a - b

\* (count as f64 / total as f64 * weight) as u32; the f64 product truncates
\* to the same integer as the exact quotient for every total below 60.
penalty(count, total, weight) == (count * weight) \div total

overall_score_unclamped(weak, reused, old, common, with_totp, total) ==
    LET s1 == saturating_sub(100, penalty(weak, total, 30))
        s2 == saturating_sub(s1, penalty(reused, total, 25))
        s3 == saturating_sub(s2, penalty(old, total, 20))
        s4 == saturating_sub(s3, penalty(common, total, 15))
    IN  s4 + penalty(with_totp, total, 10)

overall_score(weak, reused, old, common, with_totp, total) ==
    LET s1 == saturating_sub(100, penalty(weak, total, 30))
        s2 == saturating_sub(s1, penalty(reused, total, 25))
        s3 == saturating_sub(s2, penalty(old, total, 20))
        s4 == saturating_sub(s3, penalty(common, total, 15))
        s5 == s4 + penalty(with_totp, total, 10)
    IN  IF s5 > 100 THEN 100 ELSE s5

\* The recommendations, each named by the category that triggers it.
recommendations(weak, reused, old, common, with_totp, total) ==
    LET triggered ==
            (IF weak > 0 THEN <<"weak">> ELSE <<>>)
            \o (IF reused > 0 THEN <<"reused">> ELSE <<>>)
            \o (IF old > 0 THEN <<"old">> ELSE <<>>)
            \o (IF common > 0 THEN <<"common">> ELSE <<>>)
            \o (IF with_totp < total \div 2 THEN <<"totp">> ELSE <<>>)
    IN  IF triggered = <<>> THEN <<"excellent">> ELSE triggered

empty_vault_health_silent ==
    [overall_score |-> 100, total_credentials |-> 0, weak_passwords |-> 0,
     reused_passwords |-> 0, old_passwords |-> 0, strong_passwords |-> 0,
     common_passwords |-> 0, with_totp |-> 0, recommendations |-> <<>>]

empty_vault_health ==
    [overall_score |-> 100, total_credentials |-> 0, weak_passwords |-> 0,
     reused_passwords |-> 0, old_passwords |-> 0, strong_passwords |-> 0,
     common_passwords |-> 0, with_totp |-> 0,
     recommendations |-> <<"add_credentials">>]

\* VaultHealth without average_password_age_days (an f64 no claim reads).
analyze_vault_health(v, old_password_threshold_days, now) ==
    LET total == Len(v.credentials)
        weak == Len(SelectSeq(v.credentials,
                              LAMBDA c : is_weak_password(c.password)))
        strong == Len(SelectSeq(v.credentials,
                                LAMBDA c : /\ ~is_weak_password(c.password)
                                           /\ is_strong_password(c.password)))
        common == Len(SelectSeq(v.credentials,
                                LAMBDA c : is_common_password(c.password)))
        with_totp == Len(SelectSeq(v.credentials,
                                   LAMBDA c : c.totp_secret # None))
        reused == Cardinality(DOMAIN Vault_find_reused_passwords(v))
        old == Len(Vault_find_old_passwords(v, old_password_threshold_days,
                                            now))
    IN  IF total = 0 THEN empty_vault_health
        ELSE [overall_score |->
                  overall_score(weak, reused, old, common, with_totp, total),
              total_credentials |-> total,
              weak_passwords |-> weak,
              reused_passwords |-> reused,
              old_passwords |-> old,
              strong_passwords |-> strong,
              common_passwords |-> common,
              with_totp |-> with_totp,
              recommendations |->
                  recommendations(weak, reused, old, common, with_totp,
                                  total)]

NoReport == [op |-> "none", arg |-> <<>>, value |-> <<>>]

\* A credential is put into the vault that will be analysed.
AnalysedAdd ==
    /\ Len(analysed.credentials) < MaxCreds
    /\ Len(analysed.credentials) < Len(AnalysedServices)
    /\ \E p \in AnalysedPasswords, t \in TotpSecrets, u \in UpdatedAts :
          analysed' = [analysed EXCEPT !.credentials =
              Append(@, [service |->
                             AnalysedServices[Len(analysed.credentials) + 1],
                         username |-> "alice", password |-> p,
                         totp_secret |-> t, updated_at |-> u])]
    /\ report' = NoReport
    /\ UNCHANGED <<mgrVars, credVars, totpVars, cryptoVars>>
    /\ UNCHANGED utilityVars

AnalyzeVaultHealth ==
    /\ \E threshold \in Thresholds, now \in Nows :
          report' = [op |-> "analyze_vault_health",
                     arg |-> <<threshold, now>>,
                     value |-> analyze_vault_health(analysed, threshold, now)]
    /\ UNCHANGED <<analysed, mgrVars, credVars, totpVars, cryptoVars>>
    /\ UNCHANGED utilityVars

FindReusedPasswords ==
    /\ report' = [op |-> "find_reused_passwords", arg |-> <<>>,
                  value |-> Vault_find_reused_passwords(analysed)]
    /\ UNCHANGED <<analysed, mgrVars, credVars, totpVars, cryptoVars>>
    /\ UNCHANGED utilityVars

FindOldPasswords ==
    /\ \E threshold \in Thresholds, now \in Nows :
          report' = [op |-> "find_old_passwords",
                     arg |-> <<threshold, now>>,
                     value |-> Vault_find_old_passwords(analysed, threshold,
                                                        now)]
    /\ UNCHANGED <<analysed, mgrVars, credVars, totpVars, cryptoVars>>
    /\ UNCHANGED utilityVars

InitAnalytics ==
    /\ analysed = Vault_new
    /\ report = NoReport

(***************************************************************************)
(* security/totp.rs                                                        *)
(***************************************************************************)
DEFAULT_STEP == 30
TOTP_DIGITS == 6

\* Secrets handed to generate_totp / verify_totp: two base32 strings, one of
\* them also in lower case, and one string that is not base32.
TotpInputs == {"JBSWY3DPEHPK3PXP", "jbswy3dpehpk3pxp", "GEZDGNBVGY3TQOJQ",
               "not base32!"}

\* decode_base32 upper-cases its input; the bytes are named by a number.
decode_base32(secret) ==
    CASE secret = "JBSWY3DPEHPK3PXP" -> [ok |-> TRUE, bytes |-> 1]
      [] secret = "jbswy3dpehpk3pxp" -> [ok |-> TRUE, bytes |-> 1]
      [] secret = "GEZDGNBVGY3TQOJQ" -> [ok |-> TRUE, bytes |-> 2]
      [] OTHER -> [ok |-> FALSE, bytes |-> 0]

\* Stand-in for the HMAC-SHA1 dynamic truncation of totp_custom: a fixed
\* function of the secret bytes and the step counter, modulo 10^TOTP_DIGITS.
Hotp(bytes, counter) == (bytes * 7919 + counter * 104729) % (10 ^ TOTP_DIGITS)

\* The zero-padded decimal digits of a code.
FormatCode(n) ==
    [i \in 1..TOTP_DIGITS |-> (n \div (10 ^ (TOTP_DIGITS - i))) % 10]

totp_custom(step, secret_bytes, timestamp) ==
    FormatCode(Hotp(secret_bytes, timestamp \div step))

generate_totp(secret, now) ==
    LET secret_bytes == decode_base32(secret)
    IN  IF ~secret_bytes.ok
        THEN [ok |-> FALSE, code |-> <<>>]
        ELSE [ok |-> TRUE,
              code |-> totp_custom(DEFAULT_STEP, secret_bytes.bytes, now)]

verify_totp_with_window(secret, code, now) ==
    LET expected == generate_totp(secret, now)
        before == generate_totp(secret, IF now >= DEFAULT_STEP
                                        THEN now - DEFAULT_STEP ELSE now)
    IN  IF ~expected.ok
        THEN [ok |-> FALSE, value |-> FALSE]
        ELSE [ok |-> TRUE,
              value |-> IF expected.code = code THEN TRUE
                        ELSE before.code = code]

verify_totp(secret, code, now) ==
    LET expected == generate_totp(secret, now)
    IN  IF ~expected.ok
        THEN [ok |-> FALSE, value |-> FALSE]
        ELSE [ok |-> TRUE, value |-> expected.code = code]

\* One second passes.
Tick ==
    /\ clock < MaxClock
    /\ clock' = clock + 1
    /\ UNCHANGED <<issued, verified>>
    /\ UNCHANGED <<mgrVars, credVars, analyticsVars, cryptoVars>>
    /\ UNCHANGED utilityVars

GenerateTotp ==
    /\ \E secret \in TotpInputs :
          issued' = Some([secret |-> secret, step |-> clock \div DEFAULT_STEP,
                          result |-> generate_totp(secret, clock)])
    /\ UNCHANGED <<clock, verified>>
    /\ UNCHANGED <<mgrVars, credVars, analyticsVars, cryptoVars>>
    /\ UNCHANGED utilityVars

\* The codes a caller presents: the one generate_totp last returned, or
\* "000000".
PresentedCodes ==
    {FormatCode(0)}
    \cup (IF issued = None THEN {}
          ELSE IF issued[1].result.ok THEN {issued[1].result.code} ELSE {})

VerifyTotp ==
    /\ \E secret \in TotpInputs, code \in PresentedCodes :
          verified' = Some([secret |-> secret, code |-> code,
                            step |-> clock \div DEFAULT_STEP,
                            result |-> verify_totp(secret, code, clock)])
    /\ UNCHANGED <<clock, issued>>
    /\ UNCHANGED <<mgrVars, credVars, analyticsVars, cryptoVars>>
    /\ UNCHANGED utilityVars

InitTotp ==
    /\ clock = 0
    /\ issued = None
    /\ verified = None

(***************************************************************************)
(* crypto.rs : encrypt and decrypt called directly.                        *)
(***************************************************************************)
Keys == {derive_key(pw, salt) : pw \in MasterPasswords, salt \in Salts}

Plaintexts ==
    {Serialize(Vault_new),
     Serialize([credentials |->
                   <<Credential_new("github.com", "alice", "x1")>>])}

\* Nonces handed to decrypt: the 12-byte ones and one cut short by a byte.
DecryptNonces == Nonces \cup {[len |-> NONCE_SIZE - 1, id |-> "n1"]}

EncryptCall ==
    /\ \E plaintext \in Plaintexts, key \in Keys, nonce \in Nonces :
          sealed' = Some([plaintext |-> plaintext, key |-> key,
                          out |-> encrypt(plaintext, key, nonce)])
    /\ opened' = None
    /\ UNCHANGED <<mgrVars, credVars, analyticsVars, totpVars>>
    /\ UNCHANGED utilityVars

DecryptCall ==
    /\ sealed # None
    /\ \E key \in Keys, nonce \in DecryptNonces,
          part \in CiphertextParts \cup {"none"} :
          opened' = Some([key |-> key, nonce |-> nonce, part |-> part,
                          result |->
                              decrypt(IF part = "none"
                                      THEN sealed[1].out.ciphertext
                                      ELSE alter(sealed[1].out.ciphertext,
                                                 part),
                                      key, nonce)])
    /\ UNCHANGED <<sealed, mgrVars, credVars, analyticsVars, totpVars>>
    /\ UNCHANGED utilityVars

InitCrypto ==
    /\ sealed = None
    /\ opened = None

(***************************************************************************)
(* models.rs : Vault::search called on a Vault of its own.                 *)
(***************************************************************************)
GREEK_SERVICE == "U+039F U+0394 U+03A5 U+03A3"

SearchedServices == {"github.com", "site.com", GREEK_SERVICE}
SearchedUsernames == {"alice", "GIT"}
SearchQueries == {"", "GIT", "LICE", "U+03A3", "U+03C2"}

SearchedCredentials ==
    {Credential_new(s, u, "x1") : s \in SearchedServices, u \in SearchedUsernames}

\* The vaults that at most n calls of add_credential build.
RECURSIVE VaultsOfSize(_)
VaultsOfSize(n) ==
    IF n = 0
    THEN {Vault_new}
    ELSE LET smaller == VaultsOfSize(n - 1)
         IN  smaller \cup {Vault_add_credential(v, c).vault :
                              v \in smaller, c \in SearchedCredentials}

NoSearch == [op |-> "none", arg |-> "", value |-> <<>>]

SearchVault ==
    /\ \E q \in SearchQueries :
          found' = [op |-> "search", arg |-> q,
                    value |-> Vault_search(searched, q)]
    /\ UNCHANGED searched
    /\ UNCHANGED <<mgrVars, credVars, analyticsVars, totpVars, cryptoVars>>
    /\ UNCHANGED <<passwordVars, base32Vars, auditVars, pipelineVars>>

InitSearch ==
    /\ searched = Vault_new
    /\ found = NoSearch

\* add_credential called with the empty service name.
AddCredentialUnnamed ==
    \E u \in Usernames, p \in CredPasswords,
       nonce \in Nonces, io \in IoChoices :
        Return("add_credential", "",
               add_credential(Credential_new("", u, p), nonce, io))

(***************************************************************************)
(* crypto.rs : generate_password.                                          *)
(* A u32 is kept as two 16-bit limbs [hi, lo], its value hi * 2^16 + lo.    *)
(***************************************************************************)
NUMBER_CHARS == <<"0", "1", "2", "3", "4", "5", "6", "7", "8", "9">>
SYMBOL_CHARS == <<"!", "@", "#", "$", "%", "^", "&", "*", "(", ")", "-", "_",
                  "=", "+", "[", "]", "{", "}", "|", ";", ":", ",", ".", "<",
                  ">", "?">>

LIMB == 65536

\* Values OsRng.next_u32() may return: 0, 77, 2^31 and 2^32 - 1.
RandomValues == {[hi |-> 0, lo |-> 0], [hi |-> 0, lo |-> 77],
                 [hi |-> 32768, lo |-> 0], [hi |-> 65535, lo |-> 65535]}

\* (r as usize) % n for a u32 r.
u32_mod(r, n) == (((r.hi % n) * (LIMB % n)) + (r.lo % n)) % n

Flags == [use_uppercase : BOOLEAN, use_lowercase : BOOLEAN,
          use_numbers : BOOLEAN, use_symbols : BOOLEAN]

\* The charset built without regard to the flags.
charset_of_everything(flags) ==
    UpperCase \o LowerCase \o NUMBER_CHARS \o SYMBOL_CHARS

charset(flags) ==
    LET chosen == (IF flags.use_uppercase THEN UpperCase ELSE <<>>)
                  \o (IF flags.use_lowercase THEN LowerCase ELSE <<>>)
                  \o (IF flags.use_numbers THEN NUMBER_CHARS ELSE <<>>)
                  \o (IF flags.use_symbols THEN SYMBOL_CHARS ELSE <<>>)
    IN  IF chosen = <<>> THEN LowerCase ELSE chosen

\* rng[i] is the value next_u32() returns in iteration i of the loop.
generate_password(length, flags, rng) ==
    [i \in 1..length |->
        charset(flags)[u32_mod(rng[i], Len(charset(flags))) + 1]]

NoPassword == [op |-> "none", length |-> 0,
               flags |-> [use_uppercase |-> FALSE, use_lowercase |-> FALSE,
                          use_numbers |-> FALSE, use_symbols |-> FALSE],
               password |-> <<>>]

GeneratePassword ==
    /\ \E length \in 0..MaxLength, flags \in Flags :
         \E rng \in [1..length -> RandomValues] :
            generated' = [op |-> "generate_password", length |-> length,
                          flags |-> flags,
                          password |-> generate_password(length, flags, rng)]
    /\ UNCHANGED <<mgrVars, credVars, analyticsVars, totpVars, cryptoVars>>
    /\ UNCHANGED <<searchVars, base32Vars, auditVars, pipelineVars>>

InitPassword == generated = NoPassword

(***************************************************************************)
(* security/totp.rs : encode_base32 and decode_base32, bit by bit.         *)
(* A byte is a number in 0..255, a string its sequence of characters.      *)
(* bits never holds more than 13 bits, so its width (u32) is not reached.  *)
(***************************************************************************)
BASE32_ALPHABET == UpperCase \o <<"2", "3", "4", "5", "6", "7">>

\* The inner while loop of encode_base32.
RECURSIVE encode_emit(_)
encode_emit(st) ==
    IF st.bit_count >= 5
    THEN LET index == (st.bits \div (2 ^ (st.bit_count - 5))) % 32
             bit_count == st.bit_count - 5
         IN  encode_emit([output |-> Append(st.output,
                                            BASE32_ALPHABET[index + 1]),
                          bits |-> st.bits % (2 ^ bit_count),
                          bit_count |-> bit_count])
    ELSE st

\* The for loop of encode_base32 over the remaining input.
RECURSIVE encode_bytes(_, _)
encode_bytes(input, st) ==
    IF input = <<>>
    THEN st
    ELSE encode_bytes(Tail(input),
                      encode_emit([st EXCEPT !.bits = (@ * 256) + Head(input),
                                             !.bit_count = @ + 8]))

\* The padding loop of encode_base32.
RECURSIVE pad_to_multiple_of_8(_)
pad_to_multiple_of_8(output) ==
    IF Len(output) % 8 # 0
    THEN pad_to_multiple_of_8(Append(output, "="))
    ELSE output

\* encode_base32 without the character for the trailing bits.
encode_base32_whole_chars(input) ==
    pad_to_multiple_of_8(
        encode_bytes(input, [output |-> <<>>, bits |-> 0,
                             bit_count |-> 0]).output)

encode_base32(input) ==
    LET st == encode_bytes(input, [output |-> <<>>, bits |-> 0,
                                   bit_count |-> 0])
        index == (st.bits * (2 ^ (5 - st.bit_count))) % 32
    IN  pad_to_multiple_of_8(IF st.bit_count > 0
                             THEN Append(st.output, BASE32_ALPHABET[index + 1])
                             ELSE st.output)

\* str::to_uppercase on the characters of the model.
to_uppercase(t) ==
    [i \in 1..Len(t) |->
        IF \E k \in 1..Len(Lowers) : Lowers[k] = t[i]
        THEN Uppers[CHOOSE k \in 1..Len(Lowers) : Lowers[k] = t[i]]
        ELSE t[i]]

\* The for loop of decode_base32 over the remaining characters.
RECURSIVE decode_chars(_, _)
decode_chars(input, st) ==
    IF input = <<>>
    THEN [ok |-> TRUE, bytes |-> st.output]
    ELSE IF ~\E k \in 1..Len(BASE32_ALPHABET) : BASE32_ALPHABET[k] = Head(input)
    THEN [ok |-> FALSE, bytes |-> <<>>]
    ELSE LET val == (CHOOSE k \in 1..Len(BASE32_ALPHABET) :
                        BASE32_ALPHABET[k] = Head(input)) - 1
             bits == (st.bits * 32) + val
             bit_count == st.bit_count + 5
         IN  IF bit_count >= 8
             THEN decode_chars(Tail(input),
                     [output |-> Append(st.output,
                                   (bits \div (2 ^ (bit_count - 8))) % 256),
                      bits |-> bits % (2 ^ (bit_count - 8)),
                      bit_count |-> bit_count - 8])
             ELSE decode_chars(Tail(input),
                     [output |-> st.output, bits |-> bits,
                      bit_count |-> bit_count])

\* decode_base32 on a character sequence, returning the bytes themselves.
decode_base32_text(input) ==
    LET cleaned == SelectSeq(to_uppercase(input),
                             LAMBDA c : c \notin {"=", " ", "-"})
    IN  decode_chars(cleaned, [output |-> <<>>, bits |-> 0, bit_count |-> 0])

\* Bytes with every bit clear, every bit set and the two alternating patterns.
ByteValues == {0, 90, 165, 255}

ByteStrings == UNION {[1..n -> ByteValues] : n \in 0..MaxBytes}

\* How an encoded string is presented to decode_base32: as encode_base32
\* made it, in lower case, with a space or a hyphen after every character,
\* or without its padding.
Presentations == {"as_is", "lower", "spaced", "hyphenated", "unpadded"}

Interleaved(text, sep) ==
    [i \in 1..(2 * Len(text)) |->
        IF i % 2 = 1 THEN text[(i + 1) \div 2] ELSE sep]

Present(text, how) ==
    CASE how = "as_is" -> text
      [] how = "lower" -> to_lowercase(text)
      [] how = "spaced" -> Interleaved(text, " ")
      [] how = "hyphenated" -> Interleaved(text, "-")
      [] how = "unpadded" -> SelectSeq(text, LAMBDA c : c # "=")

NoBytes == [op |-> "none", bytes |-> <<>>, how |-> "as_is", text |-> <<>>,
            decoded |-> [ok |-> FALSE, bytes |-> <<>>]]

EncodeBase32 ==
    /\ encoded.op = "none"
    /\ \E how \in Presentations :
          encoded' = [encoded EXCEPT
                        !.op = "encode_base32",
                        !.how = how,
                        !.text = Present(encode_base32(encoded.bytes), how)]
    /\ UNCHANGED <<mgrVars, credVars, analyticsVars, totpVars, cryptoVars>>
    /\ UNCHANGED <<searchVars, passwordVars, auditVars, pipelineVars>>

DecodeBase32 ==
    /\ encoded.op = "encode_base32"
    /\ encoded' = [encoded EXCEPT
                     !.op = "decode_base32",
                     !.decoded = decode_base32_text(encoded.text)]
    /\ UNCHANGED <<mgrVars, credVars, analyticsVars, totpVars, cryptoVars>>
    /\ UNCHANGED <<searchVars, passwordVars, auditVars, pipelineVars>>

InitBase32 == encoded = NoBytes

(***************************************************************************)
(* models.rs : Vault::log_operation on Vault.audit_log.                    *)
(* Utc::now() is the number of the entry among all entries ever logged.    *)
(***************************************************************************)
AUDIT_CAP == 1000

AuditOperations == {"add_credential", "get_credential"}

\* log_operation dropping the entry just pushed when the log is over its cap.
log_operation_evict_newest(log, now, operation, service, success) ==
    LET pushed == Append(log, [timestamp |-> now, operation |-> operation,
                               service |-> service, success |-> success])
    IN  IF Len(pushed) > AUDIT_CAP
        THEN SubSeq(pushed, 1, Len(pushed) - 1)
        ELSE pushed

log_operation(log, now, operation, service, success) ==
    LET pushed == Append(log, [timestamp |-> now, operation |-> operation,
                               service |-> service, success |-> success])
    IN  IF Len(pushed) > AUDIT_CAP THEN Tail(pushed) ELSE pushed

\* The entries a Vault holds when the behaviour starts.
EarlierEntries(n) ==
    [i \in 1..n |-> [timestamp |-> i, operation |-> "earlier",
                     service |-> None, success |-> TRUE]]

\* Lengths of the audit log at the start: empty, and at or just under the cap.
InitialLengths == {0, AUDIT_CAP - 2, AUDIT_CAP - 1, AUDIT_CAP}

LogOperation ==
    /\ Len(SelectSeq(logged, LAMBDA e : e.operation # "earlier")) < MaxLogs
    /\ \E operation \in AuditOperations, success \in BOOLEAN :
          LET now == Len(logged) + 1
              service == Some("github.com")
          IN  /\ audit_log' = log_operation(audit_log, now, operation, service,
                                            success)
              /\ logged' = Append(logged,
                                  [timestamp |-> now, operation |-> operation,
                                   service |-> service, success |-> success])
    /\ UNCHANGED <<mgrVars, credVars, analyticsVars, totpVars, cryptoVars>>
    /\ UNCHANGED <<searchVars, passwordVars, base32Vars, pipelineVars>>

InitAudit ==
    /\ audit_log = <<>>
    /\ logged = <<>>

(***************************************************************************)
(* agent_developer_project/src/pipeline.rs : Pipeline::run.                *)
(* One action per agent call, each taken to return; what an agent returns  *)
(* is the environment's choice where the loop depends on it.               *)
(***************************************************************************)
MAX_RETRIES == 5

TaskDescriptions == {"sort a list", "reverse a string", "count the words"}

\* Number of issues a review reports.
ReviewIssues == {0, 1, 2}

\* run.pc is the agent call to make next; run.validations is the history of
\* validation.passed, run.received that of the passed flags handed to
\* coordinator.receive_result.
NotStarted(description) ==
    [pc |-> "assign_task", task_description |-> description,
     status |-> "Pending", planner_runs |-> 0, attempt |-> 0,
     retry_steps |-> 0, issues |-> 0, enriched |-> 0,
     validations |-> <<>>, received |-> <<>>]

\* coordinator.assign_task; task.status = Planning.
AssignTask ==
    /\ run.pc = "assign_task"
    /\ run' = [run EXCEPT !.pc = "planner", !.status = "Planning"]
    /\ UNCHANGED <<mgrVars, credVars, analyticsVars, totpVars, cryptoVars>>
    /\ UNCHANGED <<searchVars, passwordVars, base32Vars, auditVars>>

\* planner.process; task.status = Coding; attempt = 0.
PlannerProcess ==
    /\ run.pc = "planner"
    /\ run' = [run EXCEPT !.pc = "coder", !.planner_runs = @ + 1,
                          !.status = "Coding", !.attempt = 0]
    /\ UNCHANGED <<mgrVars, credVars, analyticsVars, totpVars, cryptoVars>>
    /\ UNCHANGED <<searchVars, passwordVars, base32Vars, auditVars>>

\* The head of the loop: attempt += 1, the plan gets one more step on a
\* retry, coder.process_with_task; task.status = Reviewing.
CoderProcess ==
    /\ run.pc = "coder"
    /\ run' = [run EXCEPT !.pc = "reviewer", !.attempt = @ + 1,
                          !.retry_steps = IF run.attempt + 1 > 1 THEN 1 ELSE 0,
                          !.issues = 0,
                          !.status = "Reviewing"]
    /\ UNCHANGED <<mgrVars, credVars, analyticsVars, totpVars, cryptoVars>>
    /\ UNCHANGED <<searchVars, passwordVars, base32Vars, auditVars>>

\* reviewer.process; task.status = Debugging.
ReviewerProcess ==
    /\ run.pc = "reviewer"
    /\ \E issues \in ReviewIssues :
          run' = [run EXCEPT !.pc = "debugger", !.issues = issues,
                             !.status = "Debugging"]
    /\ UNCHANGED <<mgrVars, credVars, analyticsVars, totpVars, cryptoVars>>
    /\ UNCHANGED <<searchVars, passwordVars, base32Vars, auditVars>>

\* debugger.process.
DebuggerProcess ==
    /\ run.pc = "debugger"
    /\ run' = [run EXCEPT !.pc = "validator"]
    /\ UNCHANGED <<mgrVars, credVars, analyticsVars, totpVars, cryptoVars>>
    /\ UNCHANGED <<searchVars, passwordVars, base32Vars, auditVars>>

\* validator.process and the rest of the loop body: receive_result and break,
\* or the enriched description for the next attempt.
ValidatorProcess ==
    /\ run.pc = "validator"
    /\ \E passed \in BOOLEAN :
          IF passed \/ run.attempt >= MAX_RETRIES
          THEN run' = [run EXCEPT !.pc = "returned",
                                  !.validations = Append(@, passed),
                                  !.received = Append(@, passed),
                                  !.status = "Complete"]
          ELSE run' = [run EXCEPT !.pc = "coder",
                                  !.validations = Append(@, passed),
                                  !.enriched = @ + 1]
    /\ UNCHANGED <<mgrVars, credVars, analyticsVars, totpVars, cryptoVars>>
    /\ UNCHANGED <<searchVars, passwordVars, base32Vars, auditVars>>

InitPipeline == run = NotStarted("sort a list")

\* The stand-alone functions before any call.
InitUtility ==
    InitSearch /\ InitPassword /\ InitBase32 /\ InitAudit /\ InitPipeline

InitManager ==
    /\ vault = None
    /\ master_key = None
    /\ file = AbsentFile
    /\ last = [op |-> "new", arg |-> "", result |-> "Ok", value |-> None,
               detail |-> ""]
    /\ initPw = None
    /\ faults = 0

Init ==
    /\ InitManager
    /\ cred = Credential_new("github.com", "alice", "x1")
    /\ supplied = <<"x1">>
    /\ InitAnalytics
    /\ InitTotp
    /\ InitCrypto
    /\ InitUtility

Next ==
    \/ Initialize
    \/ Unlock
    \/ Lock
    \/ AddCredential
    \/ UpdateCredential
    \/ RemoveCredential
    \/ GetCredential
    \/ Search
    \/ ListAll

Spec == Init /\ [][Next]_vars

\* The state-changing methods, with an environment that alters the file.
NextTamper ==
    \/ Initialize
    \/ Unlock
    \/ Lock
    \/ AddCredential
    \/ UpdateCredential
    \/ RemoveCredential
    \/ Tamper

SpecTamper == Init /\ [][NextTamper]_vars

InitCred ==
    /\ InitManager
    /\ \E p \in AnyPasswords :
        /\ cred = Credential_new("github.com", "alice", p)
        /\ supplied = <<p>>
    /\ InitAnalytics
    /\ InitTotp
    /\ InitCrypto
    /\ InitUtility

NextCred == UpdatePassword

SpecCred == InitCred /\ [][NextCred]_vars

\* Vault::search on every vault of at most MaxSearched credentials.
InitSearched ==
    /\ InitManager
    /\ cred = Credential_new("github.com", "alice", "x1")
    /\ supplied = <<"x1">>
    /\ InitAnalytics
    /\ InitTotp
    /\ InitCrypto
    /\ searched \in VaultsOfSize(MaxSearched)
    /\ found = NoSearch
    /\ InitPassword
    /\ InitBase32
    /\ InitAudit
    /\ InitPipeline

NextSearch == SearchVault

SpecSearch == InitSearched /\ [][NextSearch]_vars

\* encode_base32 and decode_base32 on every byte string of at most MaxBytes.
InitEncoded ==
    /\ InitManager
    /\ cred = Credential_new("github.com", "alice", "x1")
    /\ supplied = <<"x1">>
    /\ InitAnalytics
    /\ InitTotp
    /\ InitCrypto
    /\ InitSearch
    /\ InitPassword
    /\ \E b \in ByteStrings : encoded = [NoBytes EXCEPT !.bytes = b]
    /\ InitAudit
    /\ InitPipeline

NextBase32 == EncodeBase32 \/ DecodeBase32

SpecBase32 == InitEncoded /\ [][NextBase32]_vars

\* log_operation on a Vault that starts with at most AUDIT_CAP entries.
InitAudited ==
    /\ InitManager
    /\ cred = Credential_new("github.com", "alice", "x1")
    /\ supplied = <<"x1">>
    /\ InitAnalytics
    /\ InitTotp
    /\ InitCrypto
    /\ InitSearch
    /\ InitPassword
    /\ InitBase32
    /\ \E n \in InitialLengths :
          /\ audit_log = EarlierEntries(n)
          /\ logged = EarlierEntries(n)
    /\ InitPipeline

NextAudit == LogOperation

SpecAudit == InitAudited /\ [][NextAudit]_vars

\* Pipeline::run called once with each task description.
InitRun ==
    /\ InitManager
    /\ cred = Credential_new("github.com", "alice", "x1")
    /\ supplied = <<"x1">>
    /\ InitAnalytics
    /\ InitTotp
    /\ InitCrypto
    /\ InitSearch
    /\ InitPassword
    /\ InitBase32
    /\ InitAudit
    /\ \E description \in TaskDescriptions : run = NotStarted(description)

NextPipeline ==
    \/ AssignTask
    \/ PlannerProcess
    \/ CoderProcess
    \/ ReviewerProcess
    \/ DebuggerProcess
    \/ ValidatorProcess

\* run is one sequential function: while it has not returned, its next
\* statement is executed.
SpecPipeline == InitRun /\ [][NextPipeline]_vars /\ WF_vars(NextPipeline)

NextPassword == GeneratePassword

SpecPassword == Init /\ [][NextPassword]_vars

\* The manager used with the empty service name only.
NextUnnamed ==
    \/ Initialize
    \/ Unlock
    \/ Lock
    \/ AddCredentialUnnamed
    \/ ListAll

SpecUnnamed == Init /\ [][NextUnnamed]_vars

NextAnalytics ==
    \/ AnalysedAdd
    \/ AnalyzeVaultHealth
    \/ FindReusedPasswords
    \/ FindOldPasswords

SpecAnalytics == Init /\ [][NextAnalytics]_vars

NextTotp ==
    \/ Tick
    \/ GenerateTotp
    \/ VerifyTotp

SpecTotp == Init /\ [][NextTotp]_vars

NextCrypto ==
    \/ EncryptCall
    \/ DecryptCall

SpecCrypto == Init /\ [][NextCrypto]_vars

(***************************************************************************)
(* Properties                                                              *)
(***************************************************************************)
Mutating == {"add_credential", "update_credential", "remove_credential"}

HasService(v, service) ==
    \E i \in 1..Len(v.credentials) : v.credentials[i].service = service

LastN(s, n) == IF Len(s) <= n THEN s ELSE SubSeq(s, Len(s) - n + 1, Len(s))

MinOf(a, b) == IF a <= b THEN a ELSE b

\* C1: after a successful initialize(pw), unlock(pw') with pw' # pw returns
\* InvalidMasterPassword and no other error kind (stated for behaviours in
\* which no I/O call has failed).
C1_WrongPasswordIsInvalidMasterPassword ==
    (last.op = "unlock" /\ initPw # None /\ faults = 0 /\ last.arg # initPw[1])
        => last.result = "InvalidMasterPassword"

\* C2 (as claimed): whenever unlock returns an error the manager is Locked
\* afterwards, no Vault and no key resident, also when it was Unlocked before.
C2_FailedUnlockLeavesLocked ==
    (last.op = "unlock" /\ last.result # "Ok")
        => (vault = None /\ master_key = None)

\* C2 (amended): whenever unlock returns an error, the resident Vault and key
\* are exactly those from before the call, so a Locked manager stays Locked
\* and nothing of the failed attempt becomes resident.
C2_FailedUnlockLeavesStateUnchanged ==
    [][(last'.op = "unlock" /\ last'.result # "Ok")
          => (vault' = vault /\ master_key' = master_key)]_vars

\* C2 witness: unlock has failed on an altered ciphertext while the manager
\* was Unlocked.
C2_Witness ==
    /\ last.op = "unlock"
    /\ last.result = "DecryptionError"
    /\ file.kind = "envelope"
    /\ file.ciphertext.altered
    /\ vault # None

\* C3: after a successful initialize(pw), unlock(pw) succeeds in every
\* reachable state of the vault file (an unlock whose own fs::read succeeds).
C3_CorrectPasswordAlwaysUnlocks ==
    initPw # None
        => unlock_read(vault, master_key, file, initPw[1]).result = "Ok"

\* C4: persistence round trip: right after a successful add/update/remove,
\* lock() followed by unlock with the correct master password yields a Vault
\* equal to the one before lock, in service, username, password and
\* password_history of every credential.
C4_PersistenceRoundTrip ==
    (last.op \in Mutating /\ last.result = "Ok" /\ initPw # None)
        => LET reopened == unlock_read(None, None, file, initPw[1])
           IN  reopened.result = "Ok" /\ reopened.vault = vault

\* C5: whenever add_credential, update_credential or remove_credential has
\* returned success, the file holds an envelope that decrypts under the
\* resident key to the serialization of the current in-memory Vault.
C5_SuccessMeansPersisted ==
    (last.op \in Mutating /\ last.result = "Ok")
        => /\ vault # None
           /\ master_key # None
           /\ file.kind = "envelope"
           /\ LET dec == decrypt(file.ciphertext, master_key[1], file.nonce)
              IN  dec.ok /\ dec.plaintext = Serialize(vault[1])

\* C5 witness: an update_credential returned success after its write.
C5_Witness ==
    /\ last.op = "update_credential"
    /\ last.result = "Ok"
    /\ file.kind = "envelope"

\* C6: if add_credential, update_credential or remove_credential returns an
\* error, the vault file (a complete envelope before the call) is identical
\* afterwards: a failed or partial write never replaces it.
C6_FailedMutationLeavesFile ==
    [][(last'.op \in Mutating /\ last'.result # "Ok" /\ file.kind = "envelope")
          => file' = file]_vars

\* C7: add_credential with the service of a credential already in the vault
\* fails with CredentialAlreadyExists and changes neither the in-memory Vault
\* nor the file.
C7_DuplicateAddRejected ==
    [][(/\ last'.op = "add_credential"
        /\ vault # None
        /\ HasService(vault[1], last'.arg))
          => (/\ last'.result = "CredentialAlreadyExists"
              /\ vault' = vault
              /\ file' = file)]_vars

\* C7 witness: an add_credential was rejected as a duplicate.
C7_Witness ==
    /\ last.op = "add_credential"
    /\ last.result = "CredentialAlreadyExists"
    /\ vault # None
    /\ HasService(vault[1], last.arg)

\* C8: remove_credential(s) and update_credential(s, p) for a service s not
\* in the unlocked vault fail with CredentialNotFound and change neither the
\* in-memory Vault nor the file.
C8_MissingServiceRejected ==
    [][(/\ last'.op \in {"remove_credential", "update_credential"}
        /\ vault # None
        /\ ~HasService(vault[1], last'.arg))
          => (/\ last'.result = "CredentialNotFound"
              /\ vault' = vault
              /\ file' = file)]_vars

\* C8 witness: a remove_credential of an absent service was rejected while
\* another credential was in the vault.
C8_Witness ==
    /\ last.op = "remove_credential"
    /\ last.result = "CredentialNotFound"
    /\ vault # None
    /\ Len(vault[1].credentials) = 1
    /\ ~HasService(vault[1], last.arg)

\* C9: in every reachable state no two credentials of the in-memory Vault
\* have the same service.
C9_ServiceUnique ==
    vault # None
        => \A i, j \in 1..Len(vault[1].credentials) :
              i # j => vault[1].credentials[i].service
                         # vault[1].credentials[j].service

\* C9 witness: two credentials are in the vault and a third add, of a service
\* already present, was just attempted.
C9_Witness ==
    /\ vault # None
    /\ Len(vault[1].credentials) = 2
    /\ last.op = "add_credential"
    /\ last.result \in {"CredentialAlreadyExists", "IoError"}

Replaced == SubSeq(supplied, 1, Len(supplied) - 1)

NonEmptyReplaced == SelectSeq(Replaced, LAMBDA p : p # "")

\* C10 (as claimed): after N update_password calls with arbitrary new
\* passwords, password_history has length min(N, 10) and holds the most recent
\* 10 replaced passwords, oldest first; the password is the last one supplied.
C10_HistoryIsLastTenReplaced ==
    /\ Len(cred.password_history) = MinOf(Len(Replaced), 10)
    /\ cred.password_history = LastN(Replaced, 10)
    /\ cred.password = supplied[Len(supplied)]

\* C10 (amended): after N update_password calls on a new credential,
\* password_history holds, oldest first, the most recent 10 of the replaced
\* passwords that were non-empty (an empty password is replaced without being
\* recorded), so its length is min(M, 10) with M the number of non-empty
\* replaced passwords, which is N when no password is empty; the password is
\* the last one supplied.
C10_HistoryIsLastTenNonEmptyReplaced ==
    /\ Len(cred.password_history) = MinOf(Len(NonEmptyReplaced), 10)
    /\ cred.password_history = LastN(NonEmptyReplaced, 10)
    /\ cred.password = supplied[Len(supplied)]

\* C10 witness: eleven non-empty passwords were replaced, not all equal, and
\* the history holds ten.
C10_Witness ==
    /\ Len(Replaced) = 11
    /\ NonEmptyReplaced = Replaced
    /\ Replaced[1] # Replaced[11]
    /\ Len(cred.password_history) = 10

Crud == {"add_credential", "get_credential", "update_credential",
         "remove_credential", "search", "list_all"}

ReadOnly == {"get_credential", "search", "list_all"}

\* C11: while the manager is Locked, add_credential, get_credential,
\* update_credential, remove_credential, search and list_all each fail with
\* InvalidInput ("Vault is locked"), do no file I/O and leave it Locked.
C11_LockedCallsRejected ==
    [][(last'.op \in Crud /\ vault = None)
          => (/\ last'.result = "InvalidInput"
              /\ vault' = None
              /\ master_key' = None
              /\ file' = file
              /\ faults' = faults)]_vars

\* C11 witness: a search was rejected on a locked manager whose vault file
\* exists.
C11_Witness ==
    /\ last.op = "search"
    /\ last.result = "InvalidInput"
    /\ vault = None
    /\ file.kind = "envelope"

\* C12: a new VaultManager is Locked; in every reachable state the key is
\* resident iff the Vault is; the manager becomes Unlocked only by a
\* successful initialize or unlock and becomes Locked only by lock.
C12_LockStateMachine ==
    /\ vault = None /\ master_key = None
    /\ []((vault = None) <=> (master_key = None))
    /\ [][/\ (vault = None /\ vault' # None)
               => (last'.op \in {"initialize", "unlock"} /\ last'.result = "Ok")
          /\ (vault # None /\ vault' = None) => last'.op = "lock"]_vars

\* Every CRUD call made in this state (with no I/O failure) returns an error.
AllCrudCallsFail ==
    /\ list_all.result # "Ok"
    /\ \A q \in Queries : search(q).result # "Ok"
    /\ \A s \in Lookups : get_credential(s).result # "Ok"
    /\ \A s \in Services, n \in Nonces :
          /\ add_credential(Credential_new(s, "alice", "x1"), n, "ok").result
                # "Ok"
          /\ update_credential(s, "x1", n, "ok").result # "Ok"
          /\ remove_credential(s, n, "ok").result # "Ok"

\* C13: lock() leaves no Vault and no key resident and does not touch the
\* file, also when called again; after it every CRUD call fails until a later
\* unlock or initialize succeeds.
C13_LockedUntilOpened ==
    [][/\ last'.op = "lock"
            => (vault' = None /\ master_key' = None /\ file' = file)
       /\ (last.op = "lock"
             /\ ~(last'.op \in {"initialize", "unlock"} /\ last'.result = "Ok"))
            => AllCrudCallsFail']_vars

\* C14: initialize when a vault file already exists fails with
\* VaultAlreadyExists and leaves the file and the manager's Vault and key
\* unchanged.
C14_InitializeExistingRejected ==
    [][(last'.op = "initialize" /\ file.kind # "absent")
          => (/\ last'.result = "VaultAlreadyExists"
              /\ file' = file
              /\ vault' = vault
              /\ master_key' = master_key)]_vars

\* C14 witness: initialize was rejected on an existing envelope while the
\* manager was Unlocked.
C14_Witness ==
    /\ last.op = "initialize"
    /\ last.result = "VaultAlreadyExists"
    /\ file.kind = "envelope"
    /\ vault # None

\* C15: a successful initialize(pw) leaves the manager Unlocked with an empty
\* Vault and an envelope on disk with a 32-byte salt, a 12-byte nonce and
\* version 1; after lock(), unlock(pw) succeeds and yields an empty Vault.
C15_InitializeCreatesVault ==
    (last.op = "initialize" /\ last.result = "Ok")
        => /\ vault = Some([credentials |-> <<>>])
           /\ master_key # None
           /\ file.kind = "envelope"
           /\ file.salt.len = 32
           /\ file.nonce.len = 12
           /\ file.version = 1
           /\ LET reopened == unlock_read(None, None, file, last.arg)
              IN  /\ reopened.result = "Ok"
                  /\ reopened.vault = Some([credentials |-> <<>>])

\* C15 witness: initialize succeeded after an earlier attempt had failed.
C15_Witness ==
    /\ last.op = "initialize"
    /\ last.result = "Ok"
    /\ file.kind = "envelope"
    /\ faults > 0

\* C16: unlock when no vault file exists fails with VaultNotFound, creates no
\* file and leaves the manager's Vault and key unchanged.
C16_UnlockMissingRejected ==
    [][(last'.op = "unlock" /\ file.kind = "absent")
          => (/\ last'.result = "VaultNotFound"
              /\ file' = file
              /\ vault' = vault
              /\ master_key' = master_key)]_vars

\* C16 witness: unlock found no vault file.
C16_Witness ==
    /\ last.op = "unlock"
    /\ last.result = "VaultNotFound"
    /\ file.kind = "absent"

\* C17: the salt of the on-disk envelope is the one initialize wrote and no
\* later save changes it: an envelope appears only by initialize on an absent
\* file, and every envelope that replaces one carries the same salt.
C17_SaltNeverChanges ==
    [][file'.kind = "envelope"
          => IF file.kind = "envelope"
             THEN file'.salt = file.salt
             ELSE last'.op = "initialize" /\ file.kind = "absent"]_vars

\* C17 witness: a save replaced the envelope (new nonce) after a previous
\* call had failed.
C17_Witness ==
    /\ last.op \in Mutating
    /\ last.result = "Ok"
    /\ file.kind = "envelope"
    /\ file.nonce.id = "n2"
    /\ faults > 0

\* C19: get_credential(s) returns CredentialNotFound for a service not in the
\* vault and otherwise the credential whose service is exactly s, with the
\* username and password given to add_credential (or to a later
\* update_credential): one of Usernames and one of CredPasswords.
C19_GetReturnsWhatWasAdded ==
    /\ (last.op = "get_credential" /\ vault # None
          /\ ~HasService(vault[1], last.arg))
         => last.result = "CredentialNotFound"
    /\ (last.op = "get_credential" /\ last.result = "Ok")
         => /\ last.value[1].service = last.arg
            /\ last.value[1].username \in Usernames
            /\ last.value[1].password \in CredPasswords

\* C20: get_credential, search and list_all, whether they succeed or fail,
\* leave the in-memory Vault, the resident key and the file unchanged.
C20_ReadsChangeNothing ==
    [][last'.op \in ReadOnly
          => (vault' = vault /\ master_key' = master_key /\ file' = file)]_vars

\* C20 witness: a search matched one credential case-insensitively.
C20_Witness ==
    /\ last.op = "search"
    /\ last.arg = "GIT"
    /\ last.result = "Ok"
    /\ Len(last.value) = 1
    /\ vault # None
    /\ Len(vault[1].credentials) = 2

\* The positions of the analysed credentials that hold this password.
Holders(password) ==
    {i \in 1..Len(analysed.credentials) :
        analysed.credentials[i].password = password}

SeqRange(q) == {q[i] : i \in 1..Len(q)}

\* C21: find_reused_passwords returns exactly one group per password value
\* held by two or more credentials, listing every service that holds it, and
\* no group for a password held by fewer; this for every password value a
\* credential can hold.
C21_ReuseGroupsAreExact ==
    report.op = "find_reused_passwords"
        => \A p \in AnalysedPasswords :
              IF Cardinality(Holders(p)) >= 2
              THEN /\ p \in DOMAIN report.value
                   /\ Len(report.value[p]) = Cardinality(Holders(p))
                   /\ SeqRange(report.value[p])
                        = {analysed.credentials[i].service : i \in Holders(p)}
              ELSE p \notin DOMAIN report.value

\* C22: every credential in an unlocked vault has a non-empty service, and
\* add_credential with an empty service fails with InvalidInput.
C22_ServiceNonEmpty ==
    /\ vault # None
         => \A i \in 1..Len(vault[1].credentials) :
               vault[1].credentials[i].service # ""
    /\ (last.op = "add_credential" /\ last.arg = "")
         => last.result = "InvalidInput"

\* The credentials that share their password with another credential.
SharingPassword ==
    {i \in 1..Len(analysed.credentials) :
        Cardinality(Holders(analysed.credentials[i].password)) >= 2}

\* C23: for a non-empty vault the score is 100 minus, saturating at 0 and one
\* after the other, weight * affected / n truncated, for weak (30), reused
\* (25), old (20) and common (15), where the credentials affected by reuse
\* are all those sharing their password with another one (the TOTP bonus is
\* then added and the sum capped at 100).
C23_PenaltiesPerAffectedCredential ==
    (report.op = "analyze_vault_health" /\ Len(analysed.credentials) > 0)
        => LET h == report.value
               n == Len(analysed.credentials)
               s1 == saturating_sub(100, (30 * h.weak_passwords) \div n)
               s2 == saturating_sub(s1,
                                    (25 * Cardinality(SharingPassword)) \div n)
               s3 == saturating_sub(s2, (20 * h.old_passwords) \div n)
               s4 == saturating_sub(s3, (15 * h.common_passwords) \div n)
           IN  h.overall_score = MinOf(100, s4 + (10 * h.with_totp) \div n)

\* C24: the overall_score of analyze_vault_health is an integer in [0, 100]
\* for every vault and threshold.
C24_ScoreInRange ==
    report.op = "analyze_vault_health"
        => report.value.overall_score \in 0..100

\* C24 witness: a vault whose score before the cap would exceed 100 (no
\* penalty, every credential with TOTP).
C24_Witness ==
    /\ report.op = "analyze_vault_health"
    /\ Len(analysed.credentials) = 1
    /\ report.value.with_totp = 1
    /\ report.value.weak_passwords = 0
    /\ report.value.old_passwords = 0
    /\ report.value.overall_score = 100

\* C25: analyze_vault_health on a vault with no credentials returns
\* overall_score 100, all counters 0 and exactly one recommendation.
C25_EmptyVaultHealth ==
    (report.op = "analyze_vault_health" /\ Len(analysed.credentials) = 0)
        => LET h == report.value
           IN  /\ h.overall_score = 100
               /\ h.total_credentials = 0
               /\ h.weak_passwords = 0
               /\ h.reused_passwords = 0
               /\ h.old_passwords = 0
               /\ h.strong_passwords = 0
               /\ h.common_passwords = 0
               /\ h.with_totp = 0
               /\ Len(h.recommendations) = 1

\* C25 witness: the health of the empty vault was computed.
C25_Witness ==
    /\ report.op = "analyze_vault_health"
    /\ analysed.credentials = <<>>
    /\ report.value.recommendations = <<"add_credentials">>

\* C26: for a non-empty vault of n credentials, t of them with a TOTP secret,
\* the TOTP recommendation is emitted exactly when 2t < n.
C26_TotpNudgeBelowHalf ==
    (report.op = "analyze_vault_health" /\ Len(analysed.credentials) > 0)
        => LET n == Len(analysed.credentials)
               t == Cardinality({i \in 1..n :
                       analysed.credentials[i].totp_secret # None})
           IN  ("totp" \in SeqRange(report.value.recommendations))
                  <=> (2 * t < n)

\* C27: find_old_passwords reports a credential exactly when now - updated_at
\* is strictly more than threshold_days days, also when it exceeds them by
\* less than a day.
C27_OldIffElapsedExceedsThreshold ==
    report.op = "find_old_passwords"
        => \A i \in 1..Len(analysed.credentials) :
              LET c == analysed.credentials[i]
                  threshold_days == report.arg[1]
                  now == report.arg[2]
              IN  (c \in SeqRange(report.value))
                     <=> (now - c.updated_at > threshold_days * SECS_PER_DAY)

\* C28: verify_totp accepts a code that generate_totp returned for the same
\* secret in the same 30-second step, and accepts a code exactly when it is
\* the code of the step containing the time of verification (no window).
C28_TotpSameStepOnly ==
    [][verified' # verified
          => LET v == verified'[1]
                 step == clock \div DEFAULT_STEP
             IN  /\ (/\ issued # None
                     /\ issued[1].result.ok
                     /\ issued[1].secret = v.secret
                     /\ issued[1].result.code = v.code
                     /\ issued[1].step = step)
                       => v.result = [ok |-> TRUE, value |-> TRUE]
                 /\ v.result.ok
                       => (v.result.value
                             <=> v.code = FormatCode(
                                   Hotp(decode_base32(v.secret).bytes, step)))
      ]_vars

\* C28 witness: a code issued in the third step was accepted in that step.
C28_Witness ==
    /\ verified # None
    /\ issued # None
    /\ verified[1].result = [ok |-> TRUE, value |-> TRUE]
    /\ verified[1].code = issued[1].result.code
    /\ verified[1].step = issued[1].step
    /\ verified[1].step = 2

\* C29: decrypt of what encrypt returned, with the same key and nonce, is the
\* plaintext; with a different key, a different nonce, an altered ciphertext
\* or a nonce that is not 12 bytes long decrypt returns an error.
C29_DecryptInvertsEncrypt ==
    opened # None
        => LET call == opened[1]
               made == sealed[1]
           IN  /\ IF /\ call.key = made.key
                     /\ call.nonce = made.out.nonce
                     /\ call.part = "none"
                  THEN /\ call.result.ok
                       /\ call.result.plaintext = made.plaintext
                  ELSE ~call.result.ok
               /\ call.nonce.len # 12 => ~call.result.ok

\* C29 witness: a non-empty plaintext came back from decrypt.
C29_Witness ==
    /\ opened # None
    /\ opened[1].result.ok
    /\ opened[1].result.plaintext = sealed[1].plaintext
    /\ Len(sealed[1].plaintext.credentials) = 1

\* C30: unlock on a readable envelope returns one and the same error value
\* for a wrong master password and for an altered ciphertext, whichever part
\* of the ciphertext was altered.
C30_UnlockFailuresIndistinguishable ==
    [][(/\ last'.op = "unlock"
        /\ file.kind = "envelope"
        /\ last'.result # "IoError"
        /\ \/ file.ciphertext.altered
           \/ derive_key(last'.arg, file.salt) # file.ciphertext.key)
          => (/\ last'.result = "DecryptionError"
              /\ last'.detail = "aead::Error")]_vars

\* C30 witness: unlock with the right password failed on a ciphertext whose
\* tag was altered.
C30_Witness ==
    /\ last.op = "unlock"
    /\ last.result = "DecryptionError"
    /\ last.detail = "aead::Error"
    /\ initPw # None
    /\ last.arg = initPw[1]
    /\ file.kind = "envelope"
    /\ file.ciphertext.part = "tag"

\* C33 (as claimed): when add_credential, update_credential or
\* remove_credential returns an error, whatever the reason (a failing read or
\* write of the file included), the in-memory Vault is the one from before the
\* call.
C33_FailedChangeLeavesVaultUnchanged ==
    [][(last'.op \in Mutating /\ last'.result # "Ok") => vault' = vault]_vars

\* C34 (as claimed): when initialize, called on a Locked manager, returns an
\* error, the manager is Locked afterwards: no Vault and no key are resident
\* and every following CRUD call fails.
C34_FailedInitializeLeavesLocked ==
    [][(last'.op = "initialize" /\ last'.result # "Ok" /\ vault = None)
          => (vault' = None /\ master_key' = None /\ AllCrudCallsFail')]_vars

\* C35: update_password appends the replaced password to password_history
\* exactly when the current password is non-empty; with an empty current
\* password the history is left as it is, while password and updated_at are
\* overwritten all the same; the history never exceeds 10 entries and on
\* overflow loses exactly its oldest entry.
C35_HistoryPushedIffNonEmpty ==
    [][/\ cred'.password = supplied'[Len(supplied')]
       /\ cred'.updated_at = Len(supplied)
       /\ cred'.updated_at > cred.updated_at
       /\ IF cred.password # ""
          THEN cred'.password_history
                 = LastN(Append(cred.password_history, cred.password),
                         HISTORY_CAP)
          ELSE cred'.password_history = cred.password_history
       /\ Len(cred'.password_history) <= HISTORY_CAP]_vars

\* C35 witness: the history is full, the password replaced last was empty and
\* the new password and instant are in place.
C35_Witness ==
    /\ Len(Replaced) = 11
    /\ Replaced[11] = ""
    /\ Len(cred.password_history) = HISTORY_CAP
    /\ cred.password # ""
    /\ cred.updated_at = 11

CaseFold(ch) ==
    IF ch = FINAL_SIGMA THEN "U+03C3"
    ELSE IF \E k \in 1..Len(Uppers) : Uppers[k] = ch
    THEN Lowers[CHOOSE k \in 1..Len(Uppers) : Uppers[k] = ch]
    ELSE ch

\* q occurs in t at some position, letters compared without regard to case.
ContainsIgnoringCase(t, q) ==
    \E k \in 0..(Len(t) - Len(q)) :
        \A j \in 1..Len(q) : CaseFold(t[k + j]) = CaseFold(q[j])

\* C37 (as claimed): search(q) returns exactly the credentials whose service
\* or username contains q as a substring compared case-insensitively, in vault
\* order; the empty query returns every credential.
C37_SearchIsCaseInsensitiveContains ==
    found.op = "search"
        => /\ found.value
                = SelectSeq(searched.credentials,
                            LAMBDA c :
                               \/ ContainsIgnoringCase(Chars(c.service),
                                                       Chars(found.arg))
                               \/ ContainsIgnoringCase(Chars(c.username),
                                                       Chars(found.arg)))
           /\ found.arg = "" => found.value = searched.credentials

\* The characters a password generated under these flags may hold.
AllowedChars(flags) ==
    IF ~(flags.use_uppercase \/ flags.use_lowercase
           \/ flags.use_numbers \/ flags.use_symbols)
    THEN SeqRange(LowerCase)
    ELSE (IF flags.use_uppercase THEN SeqRange(UpperCase) ELSE {})
         \cup (IF flags.use_lowercase THEN SeqRange(LowerCase) ELSE {})
         \cup (IF flags.use_numbers THEN SeqRange(NUMBER_CHARS) ELSE {})
         \cup (IF flags.use_symbols THEN SeqRange(SYMBOL_CHARS) ELSE {})

\* C31: generate_password(length, flags) returns exactly length characters,
\* each from the union of the character sets whose flag is set; with no flag
\* set every character is a lowercase letter; length 0 gives the empty string.
C31_PasswordFromChosenCharsets ==
    generated.op = "generate_password"
        => /\ Len(generated.password) = generated.length
           /\ \A i \in 1..Len(generated.password) :
                 generated.password[i] \in AllowedChars(generated.flags)
           /\ generated.length = 0 => generated.password = <<>>

\* C31 witness: two characters were asked for with no flag set and two
\* different lowercase letters came back.
C31_Witness ==
    /\ generated.op = "generate_password"
    /\ generated.length = 2
    /\ generated.flags = NoPassword.flags
    /\ generated.password[1] # generated.password[2]
    /\ generated.password[2] \in SeqRange(LowerCase)

\* 2^32 = U32_COUNT_DIV(n) * n + U32_COUNT_MOD(n), computed from
\* 2^16 = a * n + b.
U32_COUNT_MOD(n) == ((LIMB % n) * (LIMB % n)) % n

U32_COUNT_DIV(n) ==
    LET a == LIMB \div n
        b == LIMB % n
    IN  (a * a * n) + (2 * a * b) + ((b * b) \div n)

\* The number of u32 values r with r % n = idx.
Preimages(n, idx) ==
    U32_COUNT_DIV(n) + (IF idx < U32_COUNT_MOD(n) THEN 1 ELSE 0)

\* C38 (as claimed): each character is drawn uniformly: for the charset the
\* flags produce, r % charset.len() over the 2^32 values of r assigns the same
\* number of values to every index.
C38_ModuloIsUniform ==
    generated.op = "generate_password"
        => LET n == Len(charset(generated.flags))
           IN  \A i, j \in 0..(n - 1) : Preimages(n, i) = Preimages(n, j)

\* C32: decode_base32(encode_base32(b)) = b for byte strings b of every
\* length, those whose length is not a multiple of 5 (partial last character,
\* '=' padding) included; decoding ignores case, '=', spaces and '-'.
C32_Base32RoundTrip ==
    encoded.op = "decode_base32"
        => encoded.decoded = [ok |-> TRUE, bytes |-> encoded.bytes]

\* C32 witness: three bytes, not all equal, were encoded with padding, handed
\* over in lower case with that padding and decoded.
C32_Witness ==
    /\ encoded.op = "decode_base32"
    /\ Len(encoded.bytes) = 3
    /\ encoded.bytes[1] # encoded.bytes[3]
    /\ encoded.how = "lower"
    /\ Len(encoded.text) = 8
    /\ encoded.text[8] = "="
    /\ encoded.text[1] \in SeqRange(LowerCase)
    /\ encoded.decoded.ok

\* C39: after any sequence of log_operation calls on a Vault that started with
\* at most 1000 audit entries, audit_log has at most 1000 entries and holds
\* the most recent entries in order: on overflow the oldest one is evicted.
C39_AuditLogKeepsLastThousand ==
    /\ Len(audit_log) <= 1000
    /\ audit_log = LastN(logged, 1000)

\* C39 witness: a log that started one under the cap took three entries and
\* lost its two oldest.
C39_Witness ==
    /\ Len(logged) = 1002
    /\ Len(audit_log) = 1000
    /\ audit_log[1].timestamp = 3
    /\ audit_log[1000].timestamp = 1002
    /\ audit_log[1000].operation \in AuditOperations

\* The retries made so far: the runs of the Coder-Reviewer-Debugger-Validator
\* sequence after the first one.
Retries == IF run.attempt = 0 THEN 0 ELSE run.attempt - 1

\* C40 (as claimed): Pipeline::run always terminates; the Planner runs once;
\* after a failed validation the Coder-Reviewer-Debugger-Validator sequence is
\* retried, up to 5 times and never more, so that run gives up only after the
\* fifth retry; the loop stops at the first passing validation; and
\* coordinator.receive_result is called exactly once, with passed = true only
\* if the last validation passed.
C40_PipelineRetriesFiveTimes ==
    /\ <>(run.pc = "returned")
    /\ [](/\ run.planner_runs <= 1
          /\ run.pc \notin {"assign_task", "planner"} => run.planner_runs = 1)
    /\ [](Retries <= 5)
    /\ []((run.pc = "returned"
             /\ ~run.validations[Len(run.validations)]) => Retries = 5)
    /\ [](\A i \in 1..(Len(run.validations) - 1) : ~run.validations[i])
    /\ []((run.pc # "returned" /\ run.validations # <<>>)
            => ~run.validations[Len(run.validations)])
    /\ [](IF run.pc = "returned"
          THEN run.received = <<run.validations[Len(run.validations)]>>
          ELSE run.received = <<>>)

====
